---- MODULE Spec2Model ----
(***************************************************************************)
(* CodeParser (src/code_parser.py): input validation, safe AST parsing,    *)
(* structured syntax errors, result assembly and the read accessors.       *)
(*                                                                         *)
(* One CodeParser instance (`parser`) is shared by the callers in Callers. *)
(* Spec      : one caller uses the instance, call after call.              *)
(* FairSpec  : Spec plus the fairness of a running Python call.            *)
(* SpecConc  : two callers run parse() on the instance with no lock.       *)
(***************************************************************************)
EXTENDS Integers, Sequences, FiniteSets, TLC

\* ------------------------------------------------------------------ bounds

\* Longest source string the callers pass.
MaxLen == 2

\* Largest reading of time.time(); readings are 0..MaxClock in any order
\* (a wall clock can be stepped backwards between two readings).
MaxClock == 1

\* ------------------------------------------------------------------ values

\* Python's None and a present Optional value.
None == <<>>
Some(x) == <<x>>

\* One whitespace and one non-whitespace character.
Whitespace == {" "}
Alphabet == Whitespace \cup {"a"}

RECURSIVE StringsUpTo(_)
StringsUpTo(n) ==
    IF n = 0 THEN {<<>>}
    ELSE LET shorter == StringsUpTo(n - 1)
         IN  shorter \cup {Append(s, ch) : s \in shorter, ch \in Alphabet}

\* A value handed to parse(): its Python type and, for a str, its characters.
StrValue(chars) == [type |-> "str", chars |-> chars]
NoneValue == [type |-> "NoneType", chars |-> <<>>]
IntValue == [type |-> "int", chars |-> <<>>]
Inputs == {StrValue(s) : s \in StringsUpTo(MaxLen)} \cup {NoneValue, IntValue}

\* Inputs of the two racing callers: a non-string, a blank and two sources.
ConcInputs == {NoneValue, StrValue(<<" ">>), StrValue(<<"a">>), StrValue(<<" ", "a">>)}

Clock == 0..MaxClock

isinstance_str(code) == code.type = "str"

\* str.strip(): drop leading and trailing whitespace.
RECURSIVE lstrip(_)
lstrip(s) ==
    IF s # <<>> /\ Head(s) \in Whitespace THEN lstrip(Tail(s)) ELSE s

RECURSIVE rstrip(_)
rstrip(s) ==
    IF s # <<>> /\ s[Len(s)] \in Whitespace THEN rstrip(SubSeq(s, 1, Len(s) - 1)) ELSE s

\* Mutant: the source is compared untrimmed.
strip_nothing(s) == s

strip(s) == rstrip(lstrip(s))

\* ------------------------------------------------ the parser, ast.parse(code)

\* The ways ast.parse(code) ends: it returns a tree, raises SyntaxError (whose
\* lineno and offset attributes are each an int or None), or raises another
\* Exception.
OptInt == {None, Some(1)}
TreeEnd == [kind |-> "tree", lineno |-> None, offset |-> None, msg |-> ""]
SyntaxErrorEnds == [kind : {"SyntaxError"}, lineno : OptInt, offset : OptInt, msg : {"invalid syntax"}]
ExceptionEnd == [kind |-> "Exception", lineno |-> None, offset |-> None, msg |-> "maximum recursion depth exceeded"]
ParserEnds == {TreeEnd} \cup SyntaxErrorEnds \cup {ExceptionEnd}

\* The ast.Module built from a source.
Tree(code) == [module |-> code.chars]

\* ------------------------------------------------------------ the instance

\* CodeParser.__init__
CodeParser == [filenmae |-> None, source_code |-> None, ast_trees |-> None, syntax_errors |-> <<>>, parse_success |-> FALSE, parsing_time |-> 0]

\* Mutant: the tree of the call before is kept.
_reset_state_keeps_tree(self) ==
    [self EXCEPT !.syntax_errors = <<>>, !.parse_success = FALSE, !.parsing_time = 0]

\* Mutant: the diagnostics of the call before are kept.
_reset_state_keeps_errors(self) ==
    [self EXCEPT !.ast_trees = None, !.parse_success = FALSE, !.parsing_time = 0]

\* Mutant: the success flag of the call before is kept.
_reset_state_keeps_success(self) ==
    [self EXCEPT !.ast_trees = None, !.syntax_errors = <<>>, !.parsing_time = 0]

\* CodeParser._reset_state
_reset_state(self) ==
    [self EXCEPT !.ast_trees = None,
                 !.syntax_errors = <<>>,
                 !.parse_success = FALSE,
                 !.parsing_time = 0]

InputError == [type |-> "InputError", line |-> None, column |-> None, message |-> "Source code must be a string", severity |-> "error", stage |-> "syntax"]

\* CodeParser._validate_input: the instance afterwards and the returned bool.
_validate_input(self, code) ==
    IF ~isinstance_str(code)
    THEN [self |-> [self EXCEPT !.syntax_errors = Append(@, InputError)], ok |-> FALSE]
    ELSE IF strip(code.chars) = <<>>
    THEN [self |-> [self EXCEPT !.syntax_errors = Append(@, InputError)], ok |-> FALSE]
    ELSE [self |-> self, ok |-> TRUE]

\* Mutant: the diagnostic is labelled with the exception's class name.
_format_syntax_errors_class_name(exc) ==
    [type |-> "SyntaxError", line |-> exc.lineno, column |-> exc.offset, message |-> exc.msg, severity |-> "error", stage |-> "syntax"]

\* CodeParser._format_syntax_errors
_format_syntax_errors(exc) ==
    [type |-> "ParseError", line |-> exc.lineno, column |-> exc.offset, message |-> exc.msg, severity |-> "error", stage |-> "syntax"]

\* The dict appended by the `except Exception` branch of _safe_parse.
UnexpectedFailure(e) ==
    [type |-> "ParseError", line |-> None, column |-> None, message |-> e.msg, severity |-> "error", stage |-> "syntax"]

\* Mutant: no `except Exception` clause, the unexpected failure propagates.
_safe_parse_syntax_only(self, code, end) ==
    IF end.kind = "tree"
    THEN [self |-> [self EXCEPT !.ast_trees = Some(Tree(code)), !.parse_success = TRUE],
          raised |-> None]
    ELSE IF end.kind = "SyntaxError"
    THEN [self |-> [self EXCEPT !.parse_success = FALSE,
                                !.syntax_errors = Append(@, _format_syntax_errors(end))],
          raised |-> None]
    ELSE [self |-> self, raised |-> Some(end)]

\* CodeParser._safe_parse, given how ast.parse(code) ended: the instance
\* afterwards and the exception that leaves the try statement, if any.
\* `except SyntaxError` and `except Exception` handle every end that raises.
_safe_parse(self, code, end) ==
    IF end.kind = "tree"
    THEN [self |-> [self EXCEPT !.ast_trees = Some(Tree(code)), !.parse_success = TRUE],
          raised |-> None]
    ELSE IF end.kind = "SyntaxError"
    THEN [self |-> [self EXCEPT !.parse_success = FALSE,
                                !.syntax_errors = Append(@, _format_syntax_errors(end))],
          raised |-> None]
    ELSE [self |-> [self EXCEPT !.parse_success = FALSE,
                                !.syntax_errors = Append(@, UnexpectedFailure(end))],
          raised |-> None]

\* CodeParser._build_result.  The dict refers to the list self.syntax_errors;
\* _reset_state rebinds that attribute to a new list and nothing appends to a
\* list once a call that used it has returned, so a call that ran alone keeps
\* the value recorded here.
_build_result(self) ==
    [success |-> self.parse_success,
     ast_tree |-> self.ast_trees,
     syntax_errors |-> self.syntax_errors,
     parsing_time |-> self.parsing_time]

\* Mutant: one diagnostic does not count yet.
has_syntax_errors_off_by_one(self) == Len(self.syntax_errors) > 1

\* CodeParser.has_syntax_errors
has_syntax_errors(self) == Len(self.syntax_errors) > 0

\* CodeParser.get_ast
get_ast(self) == IF self.parse_success THEN self.ast_trees ELSE None

\* CodeParser.get_errors
get_errors(self) == self.syntax_errors

\* ------------------------------------------------------------------- state

Callers == {"A", "B"}

\* The caller of the sequential specification.
SeqCaller == "A"

VARIABLES
    parser,      \* the CodeParser instance (line 154), shared by the callers
    pc,          \* pc[c]: where caller c stands in parse()
    code,        \* code[c]: the argument of c's current or last call
    start_time,  \* start_time[c]: the local of parse(), line 30
    pend,        \* pend[c]: how ast.parse ended in c's call, None if not invoked
    ret,         \* ret[c]: the dict c's last call returned, None before
    trace,       \* trace[c]: the phases c's current call has gone through
    overlapped,  \* overlapped[c]: another caller stepped while c's call ran
    prev,        \* the call SeqCaller completed before the current one
    got          \* what the last accessor call returned

vars == <<parser, pc, code, start_time, pend, ret, trace, overlapped, prev, got>>

InCall(c) == pc[c] \notin {"Idle", "ResultReady", "Raised"}

NoObservation == [op |-> "none", flag |-> FALSE, tree |-> None, errors |-> <<>>]

\* A returned dict without its parsing_time.
Untimed(r) == [success |-> r.success, ast_tree |-> r.ast_tree, syntax_errors |-> r.syntax_errors]

Init ==
    /\ parser = CodeParser
    /\ pc = [c \in Callers |-> "Idle"]
    /\ code = [c \in Callers |-> NoneValue]
    /\ start_time = [c \in Callers |-> 0]
    /\ pend = [c \in Callers |-> None]
    /\ ret = [c \in Callers |-> None]
    /\ trace = [c \in Callers |-> <<>>]
    /\ overlapped = [c \in Callers |-> FALSE]
    /\ prev = None
    /\ got = NoObservation

\* A step of caller c overlaps every other call in progress.
Overlaps(c) == [d \in Callers |-> IF d # c /\ InCall(d) THEN TRUE ELSE overlapped[d]]

\* ast.parse is a function of the source: handed the source of the preceding
\* call, or of a call running beside it, it ends as it did there.
ast_parse(c, end) ==
    /\ end \in ParserEnds
    /\ (prev # None /\ prev[1].code = code[c] /\ prev[1].pend # None) => end = prev[1].pend[1]
    /\ \A d \in Callers \ {c} : (code[d] = code[c] /\ pend[d] # None) => end = pend[d][1]

\* Caller c enters parse(input).
Enter(c, input) ==
    /\ pc[c] \in {"Idle", "ResultReady"}
    /\ pc' = [pc EXCEPT ![c] = "Start"]
    /\ code' = [code EXCEPT ![c] = input]
    /\ pend' = [pend EXCEPT ![c] = None]
    /\ trace' = [trace EXCEPT ![c] = <<"Start">>]
    /\ overlapped' = [Overlaps(c) EXCEPT ![c] = \E d \in Callers \ {c} : InCall(d)]
    /\ UNCHANGED <<parser, start_time, ret>>

\* parse(code) called by the one caller of the instance.
Call(c, input) ==
    /\ Enter(c, input)
    /\ prev' = IF pc[c] = "ResultReady"
               THEN Some([code |-> code[c], pend |-> pend[c], ret |-> Untimed(ret[c][1])])
               ELSE prev
    /\ got' = NoObservation

\* parse(code) called by one of the racing callers; each of them calls once.
ConcCall(c, input) ==
    /\ pc[c] = "Idle"
    /\ Enter(c, input)
    /\ UNCHANGED <<prev, got>>

\* Lines 27-30: reset the instance, store the source, read the clock.
Reset(c) ==
    /\ pc[c] = "Start"
    /\ \E now \in Clock :
        /\ parser' = [_reset_state(parser) EXCEPT !.source_code = Some(code[c])]
        /\ start_time' = [start_time EXCEPT ![c] = now]
    /\ pc' = [pc EXCEPT ![c] = "Validating"]
    /\ trace' = [trace EXCEPT ![c] = Append(@, "Validating")]
    /\ overlapped' = Overlaps(c)
    /\ UNCHANGED <<code, pend, ret, prev, got>>

\* Line 34: if not self._validate_input(code)
ValidateInput(c) ==
    /\ pc[c] = "Validating"
    /\ LET v == _validate_input(parser, code[c])
           to == IF v.ok THEN "Parsing" ELSE "Rejected"
       IN  /\ parser' = v.self
           /\ pc' = [pc EXCEPT ![c] = to]
           /\ trace' = [trace EXCEPT ![c] = Append(@, to)]
    /\ overlapped' = Overlaps(c)
    /\ UNCHANGED <<code, start_time, pend, ret, prev, got>>

\* Line 40: self._safe_parse(code)
SafeParse(c) ==
    /\ pc[c] = "Parsing"
    /\ \E end \in ParserEnds :
        /\ ast_parse(c, end)
        /\ LET r == _safe_parse(parser, code[c], end)
               to == IF r.raised # None THEN "Raised"
                     ELSE IF end.kind = "tree" THEN "Succeeded" ELSE "Failed"
           IN  /\ parser' = r.self
               /\ pc' = [pc EXCEPT ![c] = to]
               /\ trace' = [trace EXCEPT ![c] = Append(@, to)]
        /\ pend' = [pend EXCEPT ![c] = Some(end)]
    /\ overlapped' = Overlaps(c)
    /\ UNCHANGED <<code, start_time, ret, prev, got>>

\* time.time() - start_time
Elapsed(now, start) == now - start

\* Mutant: no return after a failed validation, the call goes on to parse.
Finish_falls_through(c) ==
    /\ pc[c] \in {"Rejected", "Succeeded", "Failed"}
    /\ \E now \in Clock :
        /\ parser' = [parser EXCEPT !.parsing_time = Elapsed(now, start_time[c])]
        /\ ret' = [ret EXCEPT ![c] = IF pc[c] = "Rejected" THEN @ ELSE Some(_build_result(parser'))]
    /\ pc' = [pc EXCEPT ![c] = IF pc[c] = "Rejected" THEN "Parsing" ELSE "ResultReady"]
    /\ trace' = [trace EXCEPT ![c] = Append(@, pc'[c])]
    /\ overlapped' = Overlaps(c)
    /\ UNCHANGED <<code, start_time, pend, prev>>
    /\ got' = got

\* Lines 35-36 and 43-44: store the elapsed time, return the result dict.
Finish(c) ==
    /\ pc[c] \in {"Rejected", "Succeeded", "Failed"}
    /\ \E now \in Clock :
        /\ parser' = [parser EXCEPT !.parsing_time = Elapsed(now, start_time[c])]
        /\ ret' = [ret EXCEPT ![c] = Some(_build_result(parser'))]
    /\ pc' = [pc EXCEPT ![c] = "ResultReady"]
    /\ trace' = [trace EXCEPT ![c] = Append(@, "ResultReady")]
    /\ overlapped' = Overlaps(c)
    /\ UNCHANGED <<code, start_time, pend, prev>>
    /\ got' = got

\* The accessors, called between two calls of parse().
HasSyntaxErrors(c) ==
    /\ ~InCall(c)
    /\ got' = [NoObservation EXCEPT !.op = "has_syntax_errors", !.flag = has_syntax_errors(parser)]
    /\ UNCHANGED <<parser, pc, code, start_time, pend, ret, trace, overlapped, prev>>

GetAst(c) ==
    /\ ~InCall(c)
    /\ got' = [NoObservation EXCEPT !.op = "get_ast", !.tree = get_ast(parser)]
    /\ UNCHANGED <<parser, pc, code, start_time, pend, ret, trace, overlapped, prev>>

GetErrors(c) ==
    /\ ~InCall(c)
    /\ got' = [NoObservation EXCEPT !.op = "get_errors", !.errors = get_errors(parser)]
    /\ UNCHANGED <<parser, pc, code, start_time, pend, ret, trace, overlapped, prev>>

\* One step of a running call.  The racing callers interleave at these steps;
\* a thread switch inside a step only adds interleavings to the ones here.
Step(c) == Reset(c) \/ ValidateInput(c) \/ SafeParse(c) \/ Finish(c)

Next ==
    \/ \E input \in Inputs : Call(SeqCaller, input)
    \/ Reset(SeqCaller)
    \/ ValidateInput(SeqCaller)
    \/ SafeParse(SeqCaller)
    \/ Finish(SeqCaller)
    \/ HasSyntaxErrors(SeqCaller)
    \/ GetAst(SeqCaller)
    \/ GetErrors(SeqCaller)

Spec == Init /\ [][Next]_vars

\* A call of parse() that has started runs on: Python executes its statements
\* one after the other, and ast.parse returns or raises.
FairSpec == Spec /\ WF_vars(Step(SeqCaller))

NextConc ==
    \E c \in Callers :
        \/ \E input \in ConcInputs : ConcCall(c, input)
        \/ Reset(c)
        \/ ValidateInput(c)
        \/ SafeParse(c)
        \/ Finish(c)

SpecConc == Init /\ [][NextConc]_vars

\* ------------------------------------------------------------------ claims

\* CodeParser.parse run in one piece on the instance `self`, the clock reading
\* t0 then t1 and ast.parse ending as `end`: the dict it returns.
parse(self, input, end, t0, t1) ==
    LET reset == [_reset_state(self) EXCEPT !.source_code = Some(input)]
        v == _validate_input(reset, input)
        parsed == IF v.ok THEN _safe_parse(v.self, input, end).self ELSE v.self
    IN  _build_result([parsed EXCEPT !.parsing_time = Elapsed(t1, t0)])

\* What a fresh instance returns for caller c's input, parsing_time left out.
Alone(c) ==
    Untimed(parse(CodeParser, code[c], IF pend[c] = None THEN TreeEnd ELSE pend[c][1], 0, 0))

\* The input is not a string, or is a string of whitespace only.
Unusable(input) ==
    \/ input.type # "str"
    \/ \A i \in 1..Len(input.chars) : input.chars[i] \in Whitespace

Returned(c) == pc[c] = "ResultReady"

\* C1: every outcome parse() returns is either (success, no diagnostics, a
\* tree) or (no success, at least one diagnostic, no tree).
C1_OutcomeShape ==
    Returned(SeqCaller) =>
        LET r == ret[SeqCaller][1]
        IN  \/ r.success /\ r.syntax_errors = <<>> /\ r.ast_tree # None
            \/ ~r.success /\ Len(r.syntax_errors) >= 1 /\ r.ast_tree = None

\* A failed call returned after a call that had succeeded on the instance.
C1_Witness ==
    /\ Returned(SeqCaller)
    /\ prev # None
    /\ prev[1].ret.success
    /\ ~ret[SeqCaller][1].success

\* C2: no call of parse() ends by raising; a parser failure and a rejected
\* input each show up as a diagnostic of the returned outcome.
C2_NeverRaises ==
    /\ pc[SeqCaller] # "Raised"
    /\ Returned(SeqCaller) =>
        LET r == ret[SeqCaller][1]
            end == pend[SeqCaller]
        IN  /\ (end # None /\ end[1].kind # "tree") =>
                   \E i \in 1..Len(r.syntax_errors) : r.syntax_errors[i].message = end[1].msg
            /\ end = None => r.syntax_errors # <<>>

\* ast.parse raised something other than SyntaxError and the call returned.
C2_Witness ==
    /\ Returned(SeqCaller)
    /\ pend[SeqCaller] # None
    /\ pend[SeqCaller][1].kind = "Exception"
    /\ ret[SeqCaller][1].syntax_errors # <<>>

\* C3: a non-string or blank input is rejected with exactly one InputError
\* without line and column, no tree, and without ast.parse being invoked.
C3_InputRejected ==
    (Returned(SeqCaller) /\ Unusable(code[SeqCaller])) =>
        LET r == ret[SeqCaller][1]
        IN  /\ ~r.success
            /\ r.ast_tree = None
            /\ Len(r.syntax_errors) = 1
            /\ r.syntax_errors[1].type = "InputError"
            /\ r.syntax_errors[1].line = None
            /\ r.syntax_errors[1].column = None
            /\ pend[SeqCaller] = None
            /\ \A i \in 1..Len(trace[SeqCaller]) : trace[SeqCaller][i] # "Parsing"

\* A non-empty string of whitespace was rejected after a call that parsed.
C3_Witness ==
    /\ Returned(SeqCaller)
    /\ code[SeqCaller].type = "str"
    /\ Len(code[SeqCaller].chars) > 1
    /\ Unusable(code[SeqCaller])
    /\ prev # None
    /\ prev[1].pend # None

\* C4: once validation passes the parse step ends in a tree (success, no
\* diagnostic) or in exactly one ParseError (no success); validation and
\* parsing never both add a diagnostic, so no outcome holds more than one.
C4_ParseStep ==
    Returned(SeqCaller) =>
        LET r == ret[SeqCaller][1]
            end == pend[SeqCaller]
        IN  /\ Len(r.syntax_errors) <= 1
            /\ (end = None) <=> Unusable(code[SeqCaller])
            /\ (end # None /\ end[1].kind = "tree") =>
                   /\ r.success
                   /\ r.ast_tree = Some(Tree(code[SeqCaller]))
                   /\ r.syntax_errors = <<>>
            /\ (end # None /\ end[1].kind # "tree") =>
                   /\ ~r.success
                   /\ Len(r.syntax_errors) = 1
                   /\ r.syntax_errors[1].type = "ParseError"

\* A syntax error was reported right after a call that had also failed.
C4_Witness ==
    /\ Returned(SeqCaller)
    /\ pend[SeqCaller] # None
    /\ pend[SeqCaller][1].kind = "SyntaxError"
    /\ prev # None
    /\ Len(prev[1].ret.syntax_errors) = 1

\* C5: whatever calls came before, parse(S) returns what a fresh instance
\* returns for S (parsing_time apart), and a call repeating the input of the
\* call before it returns an equal outcome.
C5_HistoryIndependent ==
    Returned(SeqCaller) =>
        /\ Untimed(ret[SeqCaller][1]) = Alone(SeqCaller)
        /\ (prev # None /\ prev[1].code = code[SeqCaller]) =>
               Untimed(ret[SeqCaller][1]) = prev[1].ret

\* The same source failed to parse twice in a row.
C5_Witness ==
    /\ Returned(SeqCaller)
    /\ prev # None
    /\ prev[1].code = code[SeqCaller]
    /\ prev[1].ret.syntax_errors # <<>>
    /\ pend[SeqCaller] # None

AccessorStep == got' # got /\ got'.op # "none"

\* C6: after a call returned, has_syntax_errors() tells whether the outcome
\* has diagnostics, get_errors() returns them, get_ast() returns the tree iff
\* the outcome was a success; an accessor call leaves the instance as it was.
C6_Accessors ==
    /\ [](ret[SeqCaller] # None =>
            LET r == ret[SeqCaller][1]
            IN  /\ got.op = "has_syntax_errors" => (got.flag <=> r.syntax_errors # <<>>)
                /\ got.op = "get_errors" => got.errors = r.syntax_errors
                /\ got.op = "get_ast" => /\ (got.tree # None) <=> r.success
                                         /\ got.tree = r.ast_tree)
    /\ [][AccessorStep => parser' = parser]_vars

\* has_syntax_errors() answered true after the second call on the instance.
C6_Witness ==
    /\ got.op = "has_syntax_errors"
    /\ got.flag
    /\ prev # None

\* C7: line and column of every diagnostic are both present or both absent.
C7_LineColumnTogether ==
    Returned(SeqCaller) =>
        \A i \in 1..Len(ret[SeqCaller][1].syntax_errors) :
            LET d == ret[SeqCaller][1].syntax_errors[i]
            IN  (d.line = None) <=> (d.column = None)

\* C8: the parsing_time of every outcome is at least 0.
C8_ElapsedNonNegative ==
    Returned(SeqCaller) => ret[SeqCaller][1].parsing_time >= 0

\* C9: a caller whose call no other caller's step overlapped receives the
\* outcome of its own input run alone; the racing callers do not (witness).
C9_SerializedCallsAgree ==
    \A c \in Callers :
        (Returned(c) /\ ~overlapped[c]) => Untimed(ret[c][1]) = Alone(c)

\* A racing caller received success = false with no diagnostic at all, when
\* its input run alone is rejected with one.
C9_Witness ==
    \E c \in Callers :
        /\ Returned(c)
        /\ overlapped[c]
        /\ ~ret[c][1].success
        /\ ret[c][1].syntax_errors = <<>>
        /\ Alone(c).syntax_errors # <<>>

PhaseEdges ==
    {<<"Idle", "Start">>, <<"ResultReady", "Start">>, <<"Start", "Validating">>,
     <<"Validating", "Rejected">>, <<"Validating", "Parsing">>,
     <<"Parsing", "Succeeded">>, <<"Parsing", "Failed">>,
     <<"Rejected", "ResultReady">>, <<"Succeeded", "ResultReady">>,
     <<"Failed", "ResultReady">>}

Visited(c, phase) == \E i \in 1..Len(trace[c]) : trace[c][i] = phase

\* C10: a call goes Start, Validating, Rejected or Parsing, Succeeded or
\* Failed, ResultReady, never twice through a phase; the instance is reset
\* when validation starts; Rejected and Failed end with success = false,
\* Succeeded with success = true; a started call reaches ResultReady.
C10_Phases ==
    /\ [][pc'[SeqCaller] # pc[SeqCaller] => <<pc[SeqCaller], pc'[SeqCaller]>> \in PhaseEdges]_vars
    /\ [](\A i, j \in 1..Len(trace[SeqCaller]) :
              trace[SeqCaller][i] = trace[SeqCaller][j] => i = j)
    /\ [](pc[SeqCaller] = "Validating" =>
              /\ parser.syntax_errors = <<>>
              /\ parser.ast_trees = None
              /\ ~parser.parse_success)
    /\ [](Returned(SeqCaller) =>
              /\ (Visited(SeqCaller, "Rejected") \/ Visited(SeqCaller, "Failed")) =>
                     ~ret[SeqCaller][1].success
              /\ Visited(SeqCaller, "Succeeded") => ret[SeqCaller][1].success
              /\ Visited(SeqCaller, "Rejected") \/ Visited(SeqCaller, "Failed")
                     \/ Visited(SeqCaller, "Succeeded"))
    /\ (InCall(SeqCaller) ~> Returned(SeqCaller))

\* A call that failed in parsing reached ResultReady after an earlier call.
C10_Witness ==
    /\ trace[SeqCaller] = <<"Start", "Validating", "Parsing", "Failed", "ResultReady">>
    /\ prev # None

====
